---- MODULE Spec2Model ----
(***************************************************************************)
(* Model of discord/welcome_screen.py: WelcomeChannel (payload <-> entry   *)
(* conversion) and WelcomeScreen (hydration, the enabled property and the  *)
(* edit coroutine against http.edit_welcome_screen).                       *)
(***************************************************************************)
EXTENDS Integers, Sequences, FiniteSets, TLC

VARIABLES
    \* ---- WelcomeScreen object -------------------------------------------
    description,        \* self.description
    welcome_channels,   \* self.welcome_channels (sequence of WelcomeChannel)
    _guild,             \* self._guild (the guild the screen belongs to)
    _state,             \* self._state (the connection state holding http)
    features,           \* self._guild.features
    \* ---- the transport and the edit coroutines --------------------------
    nrequests,          \* calls made to http.edit_welcome_screen so far
    inflight,           \* per task: its pending request, if it awaits one
    prevArrival,        \* outcome of the last response that left another pending
    lastData,           \* the payload most recently handed to _store
    event,              \* the operation that ran last, with its outcome
    \* ---- a caller of WelcomeChannel._from_dict / to_dict -----------------
    ch_pc,              \* "start" -> "parsed" -> "done"
    ch_guild,           \* the guild context handed to _from_dict
    ch_data,            \* the channel payload handed to _from_dict
    ch_entry,           \* what _from_dict returned (or raised)
    ch_out              \* what to_dict returned (or raised)

vars == <<description, welcome_channels, _guild, _state, features, nrequests, inflight,
          prevArrival, lastData, event,
          ch_pc, ch_guild, ch_data, ch_entry, ch_out>>

screenVars == <<description, welcome_channels, _guild, _state, features,
                nrequests,
                inflight, prevArrival, lastData, event>>

chVars == <<ch_pc, ch_guild, ch_data, ch_entry, ch_out>>

(***************************************************************************)
(* Bounds.                                                                 *)
(***************************************************************************)
\* longest welcome_channels list a caller passes to edit
MaxLen == 2
\* longest welcome_channels list in a payload the server sends
MaxRespLen == 2
\* http.edit_welcome_screen is called at most this often in one behaviour
MaxRequests == 2

(***************************************************************************)
(* Python values.  A value carries its type; a dict is a function whose    *)
(* DOMAIN is its key set, so a missing key differs from a key bound to     *)
(* None.  A call either returns a value or raises.                         *)
(***************************************************************************)
None == [ty |-> "NoneType"]

PyStr(s) == [ty |-> "str", v |-> s]

PyInt(n) == [ty |-> "int", v |-> n]

PyBool(b) == [ty |-> "bool", v |-> b]

Return(x) == [ok |-> TRUE, val |-> x]

Raise(e) == [ok |-> FALSE, exc |-> e]

\* bool(value), as `and` and `if` evaluate it
Truthy(value) ==
    CASE value.ty = "NoneType" -> FALSE
      [] value.ty = "int"      -> value.v # 0
      [] value.ty = "str"      -> value.v # ""
      [] value.ty = "bool"     -> value.v
      [] OTHER                 -> TRUE

\* the decimal numerals that occur as ids on the wire
Numerals == <<"0", "1", "2", "3", "4", "5", "6", "7", "8", "9">>

\* int(value) for an int or a one-digit numeral
int(value) ==
    IF value.ty = "int"
    THEN value
    ELSE PyInt((CHOOSE i \in 1..Len(Numerals) : Numerals[i] = value.v) - 1)

\* the restriction of dict d to the keys in ks
Only(d, ks) == [k \in ks |-> d[k]]

\* d with key k bound to v (k may be new)
Put(d, k, v) == [x \in (DOMAIN d) \cup {k} |-> IF x = k THEN v ELSE d[x]]

(***************************************************************************)
(* Collaborators of the module: utils and Guild.                           *)
(***************************************************************************)
\* utils._get_as_snowflake(data, key)
_get_as_snowflake(data, key) ==
    IF key \notin DOMAIN data
    THEN None
    ELSE LET value == data[key]
         IN  IF Truthy(value) THEN int(value) ELSE value

\* Guild.get_channel(channel_id): the channel with that id, or None
get_channel(guild, channel_id) ==
    IF \E c \in guild.channels : PyInt(c.id) = channel_id
    THEN CHOOSE c \in guild.channels : PyInt(c.id) = channel_id
    ELSE None

\* utils.get(iterable, id=...): the first element with that id, or None
get(emojis, id) ==
    IF \E i \in 1..Len(emojis) : PyInt(emojis[i].id) = id
    THEN LET first == CHOOSE i \in 1..Len(emojis) :
                        /\ PyInt(emojis[i].id) = id
                        /\ \A j \in 1..(i - 1) : PyInt(emojis[j].id) # id
         IN  emojis[first]
    ELSE None

Channel(n) == [ty |-> "TextChannel", id |-> n]

Emoji(n, s) == [ty |-> "Emoji", id |-> n, name |-> s]

\* isinstance(x, _EmojiTag): Emoji and PartialEmoji derive from _EmojiTag
IsEmojiTag(x) == x.ty \in {"Emoji", "PartialEmoji"}

(***************************************************************************)
(* WelcomeChannel                                                          *)
(***************************************************************************)
\* WelcomeChannel(channel=..., description=..., emoji=...)
WelcomeChannel(channel, desc, emoji) ==
    [ty |-> "WelcomeChannel", channel |-> channel, description |-> desc,
     emoji |-> emoji]

\* _from_dict taking the literal name whenever the payload has one
_from_dict_name_first(data, guild) ==
    LET channel == get_channel(guild, _get_as_snowflake(data, "channel_id"))
        _emoji_id == _get_as_snowflake(data, "emoji_id")
    IN  IF "description" \notin DOMAIN data \/ "emoji_name" \notin DOMAIN data
        THEN Raise("KeyError")
        ELSE LET emoji == IF Truthy(data["emoji_name"])
                          THEN data["emoji_name"]
                          ELSE get(guild.emojis, _emoji_id)
             IN  Return(WelcomeChannel(channel, data["description"], emoji))

\* WelcomeChannel._from_dict(data=..., guild=...)
_from_dict(data, guild) ==
    LET channel_id == _get_as_snowflake(data, "channel_id")
        channel == get_channel(guild, channel_id)
        _emoji_id == _get_as_snowflake(data, "emoji_id")
    IN  IF "description" \notin DOMAIN data
        THEN Raise("KeyError")              \* data['description']
        ELSE IF "emoji_name" \notin DOMAIN data
        THEN Raise("KeyError")              \* data['emoji_name']
        ELSE LET emoji == IF Truthy(_emoji_id)
                          THEN get(guild.emojis, _emoji_id)   \* custom
                          ELSE data["emoji_name"]             \* unicode or None
             IN  Return(WelcomeChannel(channel, data["description"], emoji))

\* WelcomeChannel.to_dict()
to_dict(self) ==
    IF self.channel.ty = "NoneType"
    THEN Raise("AttributeError")            \* self.channel.id
    ELSE LET ret == [channel_id |-> PyInt(self.channel.id),
                     description |-> self.description,
                     emoji_id |-> None,
                     emoji_name |-> None]
         IN  IF IsEmojiTag(self.emoji)
             THEN Return([ret EXCEPT !.emoji_id = PyInt(self.emoji.id),
                                     !.emoji_name = PyStr(self.emoji.name)])
             ELSE Return([ret EXCEPT !.emoji_name = self.emoji])

(***************************************************************************)
(* A caller that converts one channel payload to an entry and back.        *)
(***************************************************************************)
\* the guild contexts: channel 1 and the custom emoji 5 may each be gone
Guilds ==
    { [id |-> 42, channels |-> cs, emojis |-> es] :
        cs \in {{Channel(1), Channel(2)}, {Channel(2)}},
        es \in {<<Emoji(5, "blob"), Emoji(6, "party")>>, <<Emoji(6, "party")>>} }

\* channel payloads with all four wire fields
FullChannelPayloads ==
    { [channel_id |-> c, description |-> d, emoji_id |-> i, emoji_name |-> n] :
        c \in {PyInt(1), PyStr("1")},
        d \in {PyStr("Read the rules!")},
        i \in {None, PyInt(0), PyStr("0"), PyInt(5), PyStr("5")},
        n \in {None, PyStr("wave"), PyStr("blob")} }

\* the same payloads, also with optional fields left out
ChannelPayloads ==
    { Only(p, ks) : p \in FullChannelPayloads,
                    ks \in { {"channel_id", "description"} \cup o :
                               o \in SUBSET {"emoji_id", "emoji_name"} } }

InitChannel ==
    /\ ch_pc = "start"
    /\ ch_guild \in Guilds
    /\ ch_data \in ChannelPayloads
    /\ ch_entry = None
    /\ ch_out = None

\* entry = WelcomeChannel._from_dict(data=ch_data, guild=ch_guild)
FromDict ==
    /\ ch_pc = "start"
    /\ ch_entry' = _from_dict(ch_data, ch_guild)
    /\ ch_pc' = "parsed"
    /\ UNCHANGED <<ch_guild, ch_data, ch_out>>

\* entry.to_dict()
ToDict ==
    /\ ch_pc = "parsed"
    /\ ch_entry.ok
    /\ ch_out' = to_dict(ch_entry.val)
    /\ ch_pc' = "done"
    /\ UNCHANGED <<ch_guild, ch_data, ch_entry>>

(***************************************************************************)
(* WelcomeScreen                                                           *)
(***************************************************************************)
PyList(items) == [ty |-> "list", items |-> items]

Tasks == {1, 2}

\* a task that awaits nothing
Idle == [pending |-> FALSE, raced |-> FALSE, seq |-> 0]

\* the guild the screen belongs to; channel 3 and emoji 7 no longer exist
TheGuild ==
    [id |-> 42, _state |-> "ConnectionState",
     channels |-> {Channel(1), Channel(2)},
     emojis |-> <<Emoji(5, "blob")>>]

\* data.get('welcome_channels', [])
PayloadChannels(data) ==
    IF "welcome_channels" \in DOMAIN data
    THEN data["welcome_channels"].items
    ELSE <<>>

\* [WelcomeChannel._from_dict(data=wc, guild=self._guild) for wc in welcome_channels]
FromDictAll(wcs, guild) == [i \in 1..Len(wcs) |-> _from_dict(wcs[i], guild)]

\* _store leaving out the entries whose channel no longer exists
_store_resolved_only(self, data, guild) ==
    LET parsed == FromDictAll(PayloadChannels(data), guild)
        live == SelectSeq(parsed, LAMBDA e : e.val.channel # None)
    IN  [description |-> data["description"],
         welcome_channels |-> [i \in DOMAIN live |-> live[i].val],
         exc |-> "none"]

\* WelcomeScreen._store(data): the fields of self afterwards, and the
\* exception that ended it ("none" when it returned)
_store(self, data, guild) ==
    IF "description" \notin DOMAIN data
    THEN [description |-> self.description,
          welcome_channels |-> self.welcome_channels, exc |-> "KeyError"]
    ELSE LET parsed == FromDictAll(PayloadChannels(data), guild)
         IN  IF \E i \in DOMAIN parsed : ~parsed[i].ok
             THEN [description |-> data["description"],
                   welcome_channels |-> self.welcome_channels, exc |-> "KeyError"]
             ELSE [description |-> data["description"],
                   welcome_channels |-> [i \in DOMAIN parsed |-> parsed[i].val],
                   exc |-> "none"]

\* enabled testing another feature of the guild
enabled_community == "COMMUNITY" \in features

\* WelcomeScreen.enabled
enabled == "WELCOME_SCREEN_ENABLED" \in features

RECURSIVE Serialise(_, _)
\* the for loop of edit over welcome_channels[i..], appending to acc
Serialise(wcs, acc) ==
    IF wcs = <<>>
    THEN Return(acc)
    ELSE LET wc == Head(wcs)
         IN  IF wc.ty # "WelcomeChannel"
             THEN Raise("InvalidArgument")
             ELSE LET d == to_dict(wc)
                  IN  IF ~d.ok
                      THEN Raise(d.exc)
                      ELSE Serialise(Tail(wcs), Append(acc, d.val))

\* lines 202-212 of edit: kwargs with welcome_channels serialised, or the
\* exception raised on the way
EditKwargs(kwargs) ==
    IF "welcome_channels" \notin DOMAIN kwargs
    THEN Return(kwargs)
    ELSE LET given == kwargs["welcome_channels"]
         IN  IF given.ty # "list"
             THEN Raise("TypeError")        \* for wc in None
             ELSE LET r == Serialise(given.items, <<>>)
                  IN  IF r.ok
                      THEN Return(Put(kwargs, "welcome_channels", PyList(r.val)))
                      ELSE r

(***************************************************************************)
(* Inputs: what callers pass to edit and what the server answers.          *)
(***************************************************************************)
\* sequences over S of length at most n
SeqsUpTo(S, n) == UNION { [1..k -> S] : k \in 0..n }

\* elements a caller may put in welcome_channels: two entries as in the
\* usage example of edit, an entry hydrated from a deleted channel, and a
\* value that is no WelcomeChannel
ListElements ==
    { WelcomeChannel(Channel(1), PyStr("Read the rules!"), PyStr("teacher")),
      WelcomeChannel(Channel(2), PyStr("Watch out!"), Emoji(5, "blob")),
      WelcomeChannel(None, PyStr("Old"), None),
      PyStr("general") }

\* every keyword the caller may give, with one value each
AllKwargs ==
    [description |-> PyStr("This is a very cool community server!"),
     enabled |-> PyBool(TRUE),
     nickname |-> PyStr("x"),
     welcome_channels |-> None]

\* the keyword sets of edit: any subset of the keywords, welcome_channels
\* being None or a list
EditInputs ==
    { Only(AllKwargs, ks) : ks \in SUBSET {"description", "enabled", "nickname"} }
    \cup
    { Put(Only(AllKwargs, ks), "welcome_channels", w) :
        ks \in SUBSET {"description", "enabled", "nickname"},
        w \in {None} \cup { PyList(l) : l \in SeqsUpTo(ListElements, MaxLen) } }

\* channel payloads the server sends: a custom emoji that was deleted on a
\* live channel, and a live custom emoji on a channel that was deleted
ServerChannels ==
    { [channel_id |-> PyStr("1"), description |-> PyStr("Rules"),
       emoji_id |-> PyStr("7"), emoji_name |-> PyStr("gone")],
      [channel_id |-> PyStr("3"), description |-> PyStr("News"),
       emoji_id |-> PyStr("5"), emoji_name |-> PyStr("blob")] }

\* WelcomeScreenPayload values: with and without the welcome_channels field
ScreenPayloads ==
    { [description |-> d] : d \in {PyStr("Welcome"), PyStr("Hello")} }
    \cup
    { [description |-> d, welcome_channels |-> PyList(l)] :
        d \in {PyStr("Welcome"), PyStr("Hello")},
        l \in SeqsUpTo(ServerChannels, MaxRespLen) }

\* errors http.edit_welcome_screen ends with, and the task's cancellation
TransportErrors == {"Forbidden", "NotFound", "HTTPException", "CancelledError"}

FeatureSets == { {"COMMUNITY"}, {"COMMUNITY", "WELCOME_SCREEN_ENABLED"} }

\* self, as _store reads and writes it
Self == [description |-> description, welcome_channels |-> welcome_channels]

(***************************************************************************)
(* The state machine of one WelcomeScreen, edited by two tasks.            *)
(***************************************************************************)
\* WelcomeScreen(data=data, guild=TheGuild): __init__ stores the guild and
\* runs _store on an object that has no fields yet
Construct(data) ==
    LET s == _store([description |-> None, welcome_channels |-> <<>>],
                    data, TheGuild)
    IN  /\ _state = TheGuild._state
        /\ _guild = TheGuild
        /\ description = s.description
        /\ welcome_channels = s.welcome_channels
        /\ lastData = data
        /\ event = [op |-> "construct", data |-> data]
        /\ features \in FeatureSets
        /\ nrequests = 0
        /\ inflight = [t \in Tasks |-> Idle]
        /\ prevArrival = "none"
        /\ ch_pc = "start"
        /\ ch_guild = TheGuild
        /\ ch_data = [channel_id |-> PyInt(1), description |-> PyStr("x"),
                      emoji_id |-> None, emoji_name |-> None]
        /\ ch_entry = None
        /\ ch_out = None

Init == \E data \in ScreenPayloads : Construct(data)

\* the tasks other than t that await a response
Pending(t) == { u \in Tasks \ {t} : inflight[u].pending }

\* the state a call started from, as far as the call may touch it
Pre == [self |-> Self, nrequests |-> nrequests, enabled |-> enabled]

\* edit without the `if kwargs:` test: it always makes the request
EditStep_unguarded(kwargs, guild) ==
    LET r == EditKwargs(kwargs)
    IN  IF ~r.ok
        THEN [outcome |-> r.exc, sent |-> <<>>]
        ELSE [outcome |-> "awaiting",
              sent |-> <<[guild_id |-> guild.id, fields |-> r.val]>>]

\* edit(**kwargs) up to its first suspension: how the call stands there and
\* the requests it has made of http.edit_welcome_screen
EditStep(kwargs, guild) ==
    LET r == EditKwargs(kwargs)
    IN  IF ~r.ok
        THEN [outcome |-> r.exc, sent |-> <<>>]         \* raised in the loop
        ELSE IF DOMAIN r.val = {}
        THEN [outcome |-> "returned", sent |-> <<>>]    \* `if kwargs:` is false
        ELSE [outcome |-> "awaiting",
              sent |-> <<[guild_id |-> guild.id, fields |-> r.val]>>]

\* task t calls edit(**kwargs) and runs it up to the await (or to its end)
EditCall(t, kwargs) ==
    /\ ~inflight[t].pending
    /\ LET step == EditStep(kwargs, _guild)
       IN  /\ nrequests + Len(step.sent) <= MaxRequests
           /\ nrequests' = nrequests + Len(step.sent)
           /\ event' = [op |-> "edit", kwargs |-> kwargs, outcome |-> step.outcome,
                        sent |-> step.sent, pre |-> Pre]
           /\ IF step.outcome = "awaiting"
              THEN inflight' = [u \in Tasks |->
                                  IF u = t
                                  THEN [pending |-> TRUE, raced |-> Pending(t) # {},
                                        seq |-> nrequests + 1]
                                  ELSE IF inflight[u].pending
                                  THEN [inflight[u] EXCEPT !.raced = TRUE]
                                  ELSE inflight[u]]
              ELSE UNCHANGED inflight
    /\ UNCHANGED <<description, welcome_channels, _guild, _state, features, prevArrival,
                   lastData>>
    /\ UNCHANGED chVars

\* line 216 storing the channels of the response but not its description
Rehydrate_channels_only(t, data) ==
    [_store(Self, data, _guild) EXCEPT !.description = description]

\* line 216 run only for the newest request: a response to an older request
\* is dropped
Rehydrate_newest(t, data) ==
    IF inflight[t].seq = nrequests
    THEN _store(Self, data, _guild)
    ELSE [description |-> description, welcome_channels |-> welcome_channels,
          exc |-> "none"]

\* line 216 in the coroutine of task t: self._store(data)
Rehydrate(t, data) == _store(Self, data, _guild)

\* the request of task t comes back with `data` and edit runs to its end
EditResume(t, data) ==
    /\ inflight[t].pending
    /\ LET s == Rehydrate(t, data)
       IN  /\ description' = s.description
           /\ welcome_channels' = s.welcome_channels
           /\ event' = [op |-> "response",
                        outcome |-> IF s.exc = "none" THEN "ok" ELSE s.exc,
                        data |-> data,
                        raced |-> inflight[t].raced,
                        seq |-> inflight[t].seq,
                        after |-> prevArrival,
                        enabled |-> enabled]
    /\ lastData' = data
    /\ inflight' = [inflight EXCEPT ![t] = Idle]
    /\ prevArrival' = IF Pending(t) # {} THEN "ok" ELSE "none"
    /\ UNCHANGED <<_guild, _state, features, nrequests>>
    /\ UNCHANGED chVars

\* edit catching the failure and making the request again
EditRaise_retry(t, err) ==
    /\ inflight[t].pending
    /\ nrequests' = nrequests + 1
    /\ event' = [op |-> "response", raised |-> err, outcome |-> err,
                 data |-> None,
                 raced |-> inflight[t].raced,
                 seq |-> inflight[t].seq,
                 after |-> prevArrival,
                 enabled |-> enabled,
                 pre |-> Pre]
    /\ UNCHANGED <<description, welcome_channels, _guild, _state, features, inflight,
                   prevArrival, lastData>>
    /\ UNCHANGED chVars

\* the request of task t fails with err, or the task is cancelled while it
\* awaits: the exception leaves edit at line 215
EditRaise(t, err) ==
    /\ inflight[t].pending
    /\ event' = [op |-> "response", raised |-> err, outcome |-> err,
                 data |-> None,
                 raced |-> inflight[t].raced,
                 seq |-> inflight[t].seq,
                 after |-> prevArrival,
                 enabled |-> enabled,
                 pre |-> Pre]
    /\ inflight' = [inflight EXCEPT ![t] = Idle]
    /\ prevArrival' = IF Pending(t) # {} THEN "failed" ELSE "none"
    /\ UNCHANGED <<description, welcome_channels, _guild, _state, features, nrequests,
                   lastData>>
    /\ UNCHANGED chVars

\* the guild's features change (a guild update from the gateway)
GuildUpdate(fs) ==
    /\ fs # features
    /\ features' = fs
    /\ event' = [op |-> "guild_update"]
    /\ UNCHANGED <<description, welcome_channels, _guild, _state, nrequests, inflight,
                   prevArrival, lastData>>
    /\ UNCHANGED chVars

\* a read of welcome_screen.enabled
ReadEnabled ==
    /\ event' = [op |-> "enabled", result |-> enabled]
    /\ UNCHANGED <<description, welcome_channels, _guild, _state, features, nrequests,
                   inflight, prevArrival, lastData>>
    /\ UNCHANGED chVars

\* what the two racing tasks pass to edit
RaceInputs ==
    { [description |-> PyStr("This is a very cool community server!")],
      [description |-> PyStr("Hello"),
       welcome_channels |-> PyList(<<WelcomeChannel(Channel(2), PyStr("Watch out!"),
                                                    Emoji(5, "blob"))>>)],
      [enabled |-> PyBool(TRUE)],
      [welcome_channels |-> PyList(<<PyStr("general")>>)] }

Next ==
    \/ \E t \in Tasks, kwargs \in RaceInputs : EditCall(t, kwargs)
    \/ \E t \in Tasks, data \in ScreenPayloads : EditResume(t, data)
    \/ \E t \in Tasks, err \in TransportErrors : EditRaise(t, err)
    \/ \E fs \in FeatureSets : GuildUpdate(fs)
    \/ ReadEnabled

Spec == Init /\ [][Next]_vars

(***************************************************************************)
(* The specification of one task calling edit with every kind of argument. *)
(***************************************************************************)
\* the payloads the screen is built from and the server answers with here
CallPayloads ==
    { [description |-> PyStr("Welcome")],
      [description |-> PyStr("Hello"),
       welcome_channels |-> PyList(<<[channel_id |-> PyStr("1"),
                                      description |-> PyStr("Rules"),
                                      emoji_id |-> None,
                                      emoji_name |-> PyStr("wave")]>>)] }

InitCall ==
    /\ \E data \in CallPayloads : Construct(data)
    /\ features = {"COMMUNITY"}

NextCall ==
    \/ \E kwargs \in EditInputs : EditCall(1, kwargs)
    \/ \E data \in CallPayloads : EditResume(1, data)
    \/ EditRaise(1, "HTTPException")

SpecCall == InitCall /\ [][NextCall]_vars

(***************************************************************************)
(* The specification of the caller of _from_dict and to_dict.              *)
(***************************************************************************)
InitEntry ==
    /\ InitChannel
    /\ _state = TheGuild._state
    /\ _guild = TheGuild
    /\ description = PyStr("Welcome")
    /\ welcome_channels = <<>>
    /\ lastData = [description |-> PyStr("Welcome")]
    /\ event = [op |-> "construct", data |-> [description |-> PyStr("Welcome")]]
    /\ features = {"COMMUNITY"}
    /\ nrequests = 0
    /\ inflight = [t \in Tasks |-> Idle]
    /\ prevArrival = "none"

NextEntry ==
    \/ FromDict /\ UNCHANGED screenVars
    \/ ToDict /\ UNCHANGED screenVars

SpecEntry == InitEntry /\ [][NextEntry]_vars

(***************************************************************************)
(* Claims about WelcomeChannel, checked under SpecEntry.                   *)
(***************************************************************************)
\* a payload with all four wire fields, a channel id, and an emoji id that
\* is null or a real (non-zero) id
ValidChannelPayload(p) ==
    /\ DOMAIN p = {"channel_id", "description", "emoji_id", "emoji_name"}
    /\ Truthy(p["channel_id"])
    /\ p["emoji_id"] = None \/ Truthy(_get_as_snowflake(p, "emoji_id"))

\* the payload names a custom emoji
CarriesCustomEmoji(p) == "emoji_id" \in DOMAIN p /\ p["emoji_id"] # None

\* C6: for every valid channel payload p and guild context, also when the
\* channel or the custom emoji of p no longer resolves in the guild,
\* to_dict(_from_dict(p)) succeeds and carries p's description and the emoji
\* fields of p: id and name of the custom emoji when p has one, otherwise no
\* id and p's literal (or null) name.
C6_RoundTrip ==
    (ch_pc = "done" /\ ValidChannelPayload(ch_data)) =>
        /\ ch_out.ok
        /\ ch_out.val.description = ch_data["description"]
        /\ IF CarriesCustomEmoji(ch_data)
           THEN LET id == _get_as_snowflake(ch_data, "emoji_id")
                    known == get(ch_guild.emojis, id)
                IN  /\ ch_out.val.emoji_id = id
                    /\ ch_out.val.emoji_name =
                         (IF known = None THEN ch_data["emoji_name"]
                                          ELSE PyStr(known.name))
           ELSE /\ ch_out.val.emoji_id = None
                /\ ch_out.val.emoji_name = ch_data["emoji_name"]

\* C7: after _from_dict, a payload whose emoji_id is non-null (any id value)
\* gives the custom emoji with that id from the guild's emojis, or None when
\* there is none, never the literal name; a payload whose emoji_id is absent
\* or null gives emoji_name verbatim, None when emoji_name is null or
\* missing, and no error is raised.
C7_Disambiguation ==
    (ch_pc # "start") =>
        /\ ch_entry.ok
        /\ IF CarriesCustomEmoji(ch_data)
           THEN ch_entry.val.emoji = get(ch_guild.emojis, int(ch_data["emoji_id"]))
           ELSE ch_entry.val.emoji =
                  (IF "emoji_name" \in DOMAIN ch_data THEN ch_data["emoji_name"]
                                                      ELSE None)

\* C7, amended: a payload without the emoji_name field makes _from_dict
\* raise KeyError.  Of a payload with that field, an emoji_id that is
\* present, non-null and non-zero gives the custom emoji with that id from
\* the guild's emojis, or None when there is none, never the literal name;
\* an emoji_id that is absent, null or zero gives emoji_name verbatim, None
\* when it is null.
C7_DisambiguationByTruth ==
    (ch_pc # "start") =>
        IF "emoji_name" \notin DOMAIN ch_data
        THEN ch_entry = Raise("KeyError")
        ELSE /\ ch_entry.ok
             /\ IF /\ CarriesCustomEmoji(ch_data)
                   /\ ch_data["emoji_id"] \notin {PyInt(0), PyStr("0")}
                THEN ch_entry.val.emoji =
                       get(ch_guild.emojis, int(ch_data["emoji_id"]))
                ELSE ch_entry.val.emoji = ch_data["emoji_name"]

\* a payload naming the custom emoji 5 of the guild came with another
\* emoji_name, and the entry holds the guild's emoji
C7_Witness ==
    /\ ch_pc = "parsed"
    /\ {"emoji_id", "emoji_name"} \subseteq DOMAIN ch_data
    /\ ch_data["emoji_id"] = PyStr("5")
    /\ ch_data["emoji_name"] = PyStr("wave")
    /\ ch_entry.ok
    /\ ch_entry.val.emoji = Emoji(5, "blob")

(***************************************************************************)
(* Claims about the arguments of edit, checked under SpecCall.             *)
(***************************************************************************)
\* the keywords edit documents
Recognized == {"description", "welcome_channels", "enabled"}

\* the call passed welcome_channels as a list
PassedList(kwargs) ==
    /\ "welcome_channels" \in DOMAIN kwargs
    /\ kwargs["welcome_channels"].ty = "list"

\* the list passed holds an element that is no WelcomeChannel
HasNonEntry(kwargs) ==
    /\ PassedList(kwargs)
    /\ \E i \in DOMAIN kwargs["welcome_channels"].items :
          kwargs["welcome_channels"].items[i].ty # "WelcomeChannel"

\* every element of the list passed is a WelcomeChannel
AllEntries(kwargs) ==
    /\ PassedList(kwargs)
    /\ \A i \in DOMAIN kwargs["welcome_channels"].items :
          kwargs["welcome_channels"].items[i].ty = "WelcomeChannel"

\* the call that just ran made no request and left the screen as it was
NothingDone ==
    /\ event.sent = <<>>
    /\ nrequests = event.pre.nrequests
    /\ Self = event.pre.self

\* C1: a call of edit whose welcome_channels list holds an element that is
\* not a WelcomeChannel, at any position and with any other keywords, fails
\* with InvalidArgument, makes no request and leaves description and
\* welcome_channels as they were.
C1_InvalidListRejected ==
    (event.op = "edit" /\ HasNonEntry(event.kwargs)) =>
        /\ event.outcome = "InvalidArgument"
        /\ NothingDone

\* C2: a call of edit whose keywords include none of description,
\* welcome_channels and enabled (whatever else they include) makes no
\* request and leaves description and welcome_channels as they were.
C2_NoRecognizedField ==
    (event.op = "edit" /\ DOMAIN event.kwargs \cap Recognized = {}) =>
        NothingDone

\* C2, amended: a call of edit with no keyword at all returns at once, makes
\* no request and leaves description and welcome_channels as they were; a
\* call whose keywords are all unrecognized sends them as a request.
C2_NoKeyword ==
    /\ (event.op = "edit" /\ DOMAIN event.kwargs = {}) =>
          /\ event.outcome = "returned"
          /\ NothingDone
    /\ (/\ event.op = "edit"
        /\ DOMAIN event.kwargs # {}
        /\ DOMAIN event.kwargs \cap Recognized = {}) =>
          /\ event.outcome = "awaiting"
          /\ event.sent = <<[guild_id |-> _guild.id, fields |-> event.kwargs]>>
          /\ nrequests = event.pre.nrequests + 1

\* edit() was called with no keyword on a screen that earlier edits, with
\* keywords, have already sent requests for
C2_Witness ==
    /\ event.op = "edit"
    /\ DOMAIN event.kwargs = {}
    /\ event.outcome = "returned"
    /\ nrequests >= 1

\* C4: a call of edit with a recognized keyword and, if welcome_channels is
\* passed, a list of WelcomeChannel entries, makes exactly one request, for
\* this guild's id, whose fields are exactly the keywords passed, each with
\* the value passed, except that welcome_channels is the list of the
\* entries' to_dict() in order.
C4_OneRequestOfPassedFields ==
    (/\ event.op = "edit"
     /\ DOMAIN event.kwargs \cap Recognized # {}
     /\ "welcome_channels" \in DOMAIN event.kwargs => AllEntries(event.kwargs)) =>
        /\ Len(event.sent) = 1
        /\ nrequests = event.pre.nrequests + 1
        /\ event.sent[1].guild_id = _guild.id
        /\ DOMAIN event.sent[1].fields = DOMAIN event.kwargs
        /\ \A k \in DOMAIN event.kwargs \ {"welcome_channels"} :
              event.sent[1].fields[k] = event.kwargs[k]
        /\ "welcome_channels" \in DOMAIN event.kwargs =>
              LET items == event.kwargs["welcome_channels"].items
                  sent == event.sent[1].fields["welcome_channels"].items
              IN  /\ Len(sent) = Len(items)
                  /\ \A i \in DOMAIN items : Return(sent[i]) = to_dict(items[i])

(***************************************************************************)
(* Claims about responses, hydration and enabled, checked under Spec.      *)
(***************************************************************************)
\* the fields _store gives a screen of TheGuild from payload data
Hydrated(data) ==
    LET s == _store([description |-> None, welcome_channels |-> <<>>],
                    data, TheGuild)
    IN  [description |-> s.description, welcome_channels |-> s.welcome_channels]

NoTaskPending == \A t \in Tasks : ~inflight[t].pending

\* C3: when the request of an edit fails with a transport error or the task
\* is cancelled, that error is what the caller gets, no further request is
\* made, and description and welcome_channels are what they were before.
C3_FailureLeavesState ==
    (event.op = "response" /\ event.outcome # "ok") =>
        /\ event.outcome \in TransportErrors
        /\ event.outcome = event.raised
        /\ nrequests = event.pre.nrequests
        /\ Self = event.pre.self

\* a request failed with Forbidden on a screen that an earlier edit had
\* hydrated with two channels
C3_Witness ==
    /\ event.op = "response"
    /\ event.outcome = "Forbidden"
    /\ nrequests = 2
    /\ Len(welcome_channels) = 2
    /\ NoTaskPending

\* C5: after an edit whose request succeeded, description and
\* welcome_channels are exactly what _store makes of the response payload,
\* and the screen still refers to the same guild and connection state.
C5_StateIsResponse ==
    (event.op = "response" /\ event.outcome = "ok") =>
        /\ Self = Hydrated(event.data)
        /\ _guild = TheGuild
        /\ _state = TheGuild._state

\* an edit succeeded with a response whose description no caller asks for
C5_Witness ==
    /\ event.op = "response"
    /\ event.outcome = "ok"
    /\ description = PyStr("Welcome")
    /\ \A kwargs \in RaceInputs :
          "description" \in DOMAIN kwargs => kwargs["description"] # description
    /\ Len(welcome_channels) = 1
    /\ nrequests = 1

\* C8: after construction and after every successful edit, welcome_channels
\* has the length of the payload's welcome_channels and its i-th entry is
\* _from_dict of the i-th payload element; it is empty when the payload has
\* no welcome_channels field.
C8_OrderPreserved ==
    (event.op = "construct" \/ (event.op = "response" /\ event.outcome = "ok")) =>
        LET wcs == PayloadChannels(event.data)
        IN  /\ Len(welcome_channels) = Len(wcs)
            /\ \A i \in DOMAIN wcs :
                  Return(welcome_channels[i]) = _from_dict(wcs[i], _guild)
            /\ "welcome_channels" \notin DOMAIN event.data =>
                  welcome_channels = <<>>

\* a response listed a deleted channel before a live channel with a deleted
\* emoji, and the entries came out in that order
C8_Witness ==
    /\ event.op = "response"
    /\ event.outcome = "ok"
    /\ Len(welcome_channels) = 2
    /\ welcome_channels[1].channel = None
    /\ welcome_channels[1].emoji = Emoji(5, "blob")
    /\ welcome_channels[2].channel = Channel(1)
    /\ welcome_channels[2].emoji = None

\* C9: a read of enabled returns whether WELCOME_SCREEN_ENABLED is in the
\* guild's features at that moment, and a response to an edit, stored or
\* not, leaves enabled as it was.
C9_EnabledIsLive ==
    /\ event.op = "enabled" =>
          event.result = ("WELCOME_SCREEN_ENABLED" \in features)
    /\ event.op = "response" => enabled = event.enabled

\* enabled was read as FALSE while an edit was pending, after an earlier
\* edit had succeeded
C9_Witness ==
    /\ event.op = "enabled"
    /\ event.result = FALSE
    /\ features = {"COMMUNITY"}
    /\ nrequests = 2
    /\ ~NoTaskPending

\* C10: when the response to one of two overlapping edits arrives, the
\* screen holds the hydration of the payload that arrived last: this one if
\* it succeeded, whichever request was made first, and otherwise what was
\* there before, which a failed or cancelled edit leaves alone.
C10_LastArrivalWins ==
    (event.op = "response" /\ event.raced) =>
        /\ Self = Hydrated(lastData)
        /\ event.outcome = "ok" => lastData = event.data
        /\ event.outcome # "ok" => Self = event.pre.self

\* two edits overlapped and both succeeded; the response to the request made
\* first arrived last and is what the screen holds
C10_Witness ==
    /\ event.op = "response"
    /\ event.outcome = "ok"
    /\ event.raced
    /\ event.after = "ok"
    /\ event.seq = 1
    /\ nrequests = 2
    /\ NoTaskPending
    /\ Self = Hydrated(event.data)

====
